---------------------------- MODULE Spec2Model ----------------------------
(***************************************************************************)
(* code_prompt_builder: the chunk splitter (chunk_output) and the          *)
(* file-selection / document-assembly pipeline (build_code_prompt) of      *)
(* src/code_prompt_builder.py.                                             *)
(*                                                                         *)
(* Text is a sequence of one-character strings.  Positions are Python's    *)
(* 0-based offsets: offset p of a text t is t[p + 1].                      *)
(***************************************************************************)
EXTENDS Integers, Sequences, FiniteSets, TLC

VARIABLES
    \* ---- chunk_output(content, max_tokens, overlap) ----
    content,        \* the document being split
    max_tokens,     \* argument max_tokens
    overlap,        \* argument overlap
    start,          \* local start
    chunks,         \* local chunks (the list returned)
    spans,          \* history: <<start, end, raw>> of every chunk appended
    cpc,            \* position in chunk_output: "idle", "loop", "done"
    \* ---- build_code_prompt(target_dir, output_dir, config) ----
    config,         \* argument config
    pc,             \* position: "start", "walk", "files", "done"
    walk,           \* os.walk: directories still to be yielded, next first
    visited,        \* history: directories os.walk has yielded
    root,           \* loop variable root (relative to target_dir)
    min_seen,       \* history: a .min<ext> name was listed where files are selected
    project_files,  \* candidates of root not yet processed, sorted
    errors,         \* local errors
    file_count,     \* local file_count
    total_lines,    \* local total_lines
    total_size,     \* local total_size
    binary_count,   \* local binary_count
    file_stats,     \* local file_stats, in insertion order
    full_content,   \* local full_content: the list of document segments
    nselected,      \* history: number of candidates selected so far
    nprocessed,     \* history: number of candidates the file loop has taken
    last,           \* history: the candidate taken last, and what happened
    content_str,    \* local content_str: the document as one string
    fatal,          \* the exception caught at lines 455-463, or "none"
    disk,           \* the output files on disk, in order of creation
    result,         \* the tuple returned
    \* ---- the directory tree and a second run on it ----
    tree,           \* what the file system answers, when fixed in advance
    run,            \* the number of the run of build_code_prompt: 1 or 2
    first,          \* history: what the first run produced
    \* ---- load_config() and merge_config_with_args(config, args) ----
    config_file,    \* code_prompt_builder_config.json on disk
    args,           \* the parsed command line
    loaded,         \* what load_config returned or raised, and what it found
    merged_config,  \* what merge_config_with_args returned
    mpc             \* position in __main__: "idle", "load", "merge", "done"

chunkVars == <<content, max_tokens, overlap, start, chunks, spans, cpc>>

buildVars == <<config, pc, walk, visited, root, min_seen, project_files, errors,
               file_count, total_lines, total_size, binary_count, file_stats,
               full_content, nselected, nprocessed, last, content_str, fatal,
               disk, result>>

twiceVars == <<tree, run, first>>

mainVars == <<config_file, args, loaded, merged_config, mpc>>

vars == <<chunkVars, buildVars, twiceVars, mainVars>>

-----------------------------------------------------------------------------
(* Bounds of the model *)
MaxPieces == 5
MaxTokens == 3
MaxOverlap == 2
MaxFiles == 2

-----------------------------------------------------------------------------
(* Generic helpers *)

Min(a, b) == IF a < b THEN a ELSE b
Max(a, b) == IF a > b THEN a ELSE b

SetMin(S) == CHOOSE x \in S : \A y \in S : x <= y
SetMax(S) == CHOOSE x \in S : \A y \in S : x >= y

\* Python slice t[a:b] for 0 <= a, with b clipped to len(t)
Slice(t, a, b) == SubSeq(t, a + 1, Min(b, Len(t)))

RECURSIVE Concat(_)
Concat(ss) == IF ss = <<>> THEN <<>> ELSE Head(ss) \o Concat(Tail(ss))

-----------------------------------------------------------------------------
(* chunk_output *)

NL == "\n"

\* the delimiter "\n###\n" searched for by chunk_output
Delim == <<NL, "#", "#", "#", NL>>

DelimLen == Len(Delim)

chars_per_token == 4

\* content[i : i + 5] == "\n###\n"
DelimAt(t, i) ==
    /\ i >= 0
    /\ i + DelimLen <= Len(t)
    /\ SubSeq(t, i + 1, i + DelimLen) = Delim

\* content.find("\n###\n", from): lowest match offset >= from, or -1
FindDelim(t, from) ==
    LET S == {i \in from..(Len(t) - DelimLen) : DelimAt(t, i)}
    IN  IF S = {} THEN -1 ELSE SetMin(S)

\* mutant of RFindDelim: the window is searched one character short
RFindDelimShort(t, lo, hi) ==
    LET S == {i \in lo..(hi - 1 - DelimLen) : DelimAt(t, i)}
    IN  IF S = {} THEN -1 ELSE SetMax(S)

\* mutant of RFindDelim: a match need only start inside the window
RFindDelimStartsInside(t, lo, hi) ==
    LET S == {i \in lo..(Min(hi, Len(t)) - 1) : DelimAt(t, i)}
    IN  IF S = {} THEN -1 ELSE SetMax(S)

\* content.rfind("\n###\n", lo, hi): highest match offset with the whole
\* match inside [lo, hi), or -1
RFindDelim(t, lo, hi) ==
    LET S == {i \in lo..(Min(hi, Len(t)) - DelimLen) : DelimAt(t, i)}
    IN  IF S = {} THEN -1 ELSE SetMax(S)

\* mutant of ChunkEnd: the cut is pulled back to a delimiter also when the
\* window reaches the end of the document
ChunkEndAlwaysSnaps(t, s, max_chars) ==
    LET end0 == Min(s + max_chars, Len(t))
        boundary == RFindDelim(t, s, end0)
    IN  IF boundary # -1 THEN boundary + 5 ELSE end0

\* lines 259-266: the end of the chunk that starts at s
ChunkEnd(t, s, max_chars) ==
    LET end0 == Min(s + max_chars, Len(t))
        boundary == RFindDelim(t, s, end0)
    IN  IF end0 < Len(t) /\ boundary # -1 THEN boundary + 5 ELSE end0

\* lines 262-265: the cut at the end of the chunk is a raw character cut
RawCut(t, s, max_chars) ==
    LET end0 == Min(s + max_chars, Len(t))
    IN  end0 < Len(t) /\ RFindDelim(t, s, end0) = -1

\* mutant of NextStart: the next chunk starts on the delimiter's newline
NextStartOnDelim(t, s, end, overlap_chars) ==
    LET overlap_start == Max(s, end - overlap_chars)
        next_start == FindDelim(t, overlap_start)
    IN  IF next_start = -1 THEN end ELSE next_start

\* lines 273-278: the start of the next chunk (only when end < len(content))
NextStart(t, s, end, overlap_chars) ==
    LET overlap_start == Max(s, end - overlap_chars)
        next_start == FindDelim(t, overlap_start)
    IN  IF next_start = -1 THEN end ELSE next_start + 1

\* the whole function, as a pure operator: the list of chunks from cursor s
RECURSIVE ChunksFrom(_, _, _, _)
ChunksFrom(t, s, max_chars, overlap_chars) ==
    IF s >= Len(t) THEN <<>>
    ELSE LET end == ChunkEnd(t, s, max_chars)
         IN  IF end < Len(t)
             THEN <<Slice(t, s, end)>>
                    \o ChunksFrom(t, NextStart(t, s, end, overlap_chars),
                                  max_chars, overlap_chars)
             ELSE <<Slice(t, s, end)>>

chunk_output(t, mt, ov) ==
    ChunksFrom(t, 0, mt * chars_per_token, ov * chars_per_token)

\* the values of start and end at each chunks.append (line 268)
RECURSIVE SpansFrom(_, _, _, _)
SpansFrom(t, s, max_chars, overlap_chars) ==
    IF s >= Len(t) THEN <<>>
    ELSE LET end == ChunkEnd(t, s, max_chars)
         IN  <<[start |-> s, end |-> end]>>
               \o (IF end < Len(t)
                   THEN SpansFrom(t, NextStart(t, s, end, overlap_chars),
                                  max_chars, overlap_chars)
                   ELSE <<>>)

(* Inputs of the chunk splitter *)
Pieces == {<<"a">>, <<NL>>, <<"#">>, Delim}

RECURSIVE DocsOf(_)
DocsOf(n) ==
    IF n = 0 THEN {<<>>}
    ELSE LET D == DocsOf(n - 1)
         IN  D \cup {d \o p : d \in D, p \in Pieces}

Docs == DocsOf(MaxPieces)

-----------------------------------------------------------------------------
(* Names, paths and the configuration *)

\* file names of the model, as texts
a_js == <<"a", ".", "j", "s">>
B_JS == <<"B", ".", "J", "S">>
a_min_js == <<"a", ".", "m", "i", "n", ".", "j", "s">>
c_txt == <<"c", ".", "t", "x", "t">>

Names == {a_js, B_JS, a_min_js, c_txt}

\* extensions of the model
ext_js == <<".", "j", "s">>
ext_min_js == <<".", "m", "i", "n", ".", "j", "s">>
\* an extension value that is not a str (the integer 0)
BadExt == <<"<int 0>">>

IsStr(e) == e # BadExt

\* f"{e}" : the text an extension value formats to
Format(e) == IF IsStr(e) THEN e ELSE <<"0">>

UpperCase == <<"A", "B", "C", "D", "E", "F", "G", "H", "I", "J", "K", "L", "M",
               "N", "O", "P", "Q", "R", "S", "T", "U", "V", "W", "X", "Y", "Z">>
LowerCase == <<"a", "b", "c", "d", "e", "f", "g", "h", "i", "j", "k", "l", "m",
               "n", "o", "p", "q", "r", "s", "t", "u", "v", "w", "x", "y", "z">>

\* the code point of a character of a file name (for sorted())
CodePoint(c) ==
    IF \E i \in 1..26 : UpperCase[i] = c
    THEN 64 + (CHOOSE i \in 1..26 : UpperCase[i] = c)
    ELSE IF \E i \in 1..26 : LowerCase[i] = c
    THEN 96 + (CHOOSE i \in 1..26 : LowerCase[i] = c)
    ELSE 46

LowerChar(c) ==
    IF \E i \in 1..26 : UpperCase[i] = c
    THEN LowerCase[CHOOSE i \in 1..26 : UpperCase[i] = c]
    ELSE c

\* str.lower()
Lower(s) == [i \in 1..Len(s) |-> LowerChar(s[i])]

\* str.endswith(suffix) for one suffix
EndsWith(s, suf) ==
    /\ Len(suf) <= Len(s)
    /\ SubSeq(s, Len(s) - Len(suf) + 1, Len(s)) = suf

\* str.endswith(tuple): "true", "false", or "TypeError" when an item that is
\* not a str is reached before a matching one
RECURSIVE EndsWithTuple(_, _)
EndsWithTuple(s, tup) ==
    IF tup = <<>> THEN "false"
    ELSE IF ~IsStr(Head(tup)) THEN "TypeError"
    ELSE IF EndsWith(s, Head(tup)) THEN "true"
    ELSE EndsWithTuple(s, Tail(tup))

\* tuple(f".min{e}" for e in extensions)
MinTuple(exts) == [i \in 1..Len(exts) |-> <<".", "m", "i", "n">> \o Format(exts[i])]

\* Python's < on str
RECURSIVE StrLess(_, _)
StrLess(a, b) ==
    IF b = <<>> THEN FALSE
    ELSE IF a = <<>> THEN TRUE
    ELSE IF CodePoint(Head(a)) # CodePoint(Head(b))
    THEN CodePoint(Head(a)) < CodePoint(Head(b))
    ELSE StrLess(Tail(a), Tail(b))

\* sorted(S) for a set of distinct names
RECURSIVE Sorted(_)
Sorted(S) ==
    IF S = {} THEN <<>>
    ELSE LET m == CHOOSE x \in S : \A y \in S \ {x} : StrLess(x, y)
         IN  <<m>> \o Sorted(S \ {m})

\* directories of the tree, as paths relative to target_dir ('.' is <<>>),
\* in the order os.walk lists them
Dirs == << <<>>, <<"src">>, <<"src", "lib">>, <<"src", "node_modules">> >>

DirSet == {Dirs[i] : i \in 1..Len(Dirs)}

\* p + os.sep is a prefix of q
UnderDir(q, p) == Len(p) < Len(q) /\ SubSeq(q, 1, Len(p)) = p

\* os.path.basename of a directory
BaseName(d) == d[Len(d)]

\* the entries dirs of os.walk at directory d, in listing order
RECURSIVE SelectDirs(_, _)
SelectDirs(ds, d) ==
    IF ds = <<>> THEN <<>>
    ELSE (IF Len(Head(ds)) = Len(d) + 1 /\ UnderDir(Head(ds), d)
          THEN <<Head(ds)>> ELSE <<>>) \o SelectDirs(Tail(ds), d)

SubDirs(d) == SelectDirs(Dirs, d)

\* a path relative to target_dir: the directory and the file name;
\* a bare file name is a path with directory '.'
Path(d, f) == [dir |-> d, name |-> f]

ExtChoices == {<<ext_js>>, <<ext_js, ext_min_js>>, <<ext_js, BadExt>>}
ExcludeFileChoices == {{}, {Path(<<>>, B_JS), Path(<<"src">>, a_js)}}
ExcludeDirChoices == {{}, {"node_modules"}}
FocusChoices == {{}, {<<"src", "lib">>}}
\* chunk_size: None is 0 (both fail the test of line 434)
ChunkSizeChoices == {0, 2}

\* the configurations that vary what is selected
SelectConfigs ==
    [extensions : ExtChoices,
     exclude_files : ExcludeFileChoices,
     exclude_dirs : ExcludeDirChoices,
     focus_dirs : FocusChoices,
     chunk_size : {0},
     include_summary : {TRUE}]

\* the configurations that vary how the document is written
OutputConfigs ==
    [extensions : {<<ext_js>>},
     exclude_files : {{}},
     exclude_dirs : {{"node_modules"}},
     focus_dirs : {{}},
     chunk_size : ChunkSizeChoices,
     include_summary : BOOLEAN]

\* the times datetime.now() returns
OneClock == {1}
TwoClocks == {1, 2}

\* the listings os.walk reports for a directory
AnyListing == SUBSET Names
PlainListing == {{}, {a_js}, {a_js, B_JS}}

\* the configurations of a run that is repeated
TwiceConfigs ==
    [extensions : {<<ext_js>>},
     exclude_files : {{}},
     exclude_dirs : {{"node_modules"}},
     focus_dirs : {{}},
     chunk_size : {0},
     include_summary : BOOLEAN]

-----------------------------------------------------------------------------
(* Files: what the file system answers *)

NUL == "\\x00"
BAD == "\\xff"

\* a file is the bytes the detector samples (the first sample_size bytes),
\* the bytes after them, and its modification time
TextFile == [sample |-> <<"a", NL, "b">>, rest |-> <<>>, mtime |-> 1]
NulFile == [sample |-> <<"a", NUL>>, rest |-> <<>>, mtime |-> 1]
BadSampleFile == [sample |-> <<BAD>>, rest |-> <<>>, mtime |-> 1]
BadRestFile == [sample |-> <<"a">>, rest |-> <<BAD>>, mtime |-> 1]
NulRestFile == [sample |-> <<"a", NL>>, rest |-> <<NUL>>, mtime |-> 1]
EmptyFile == [sample |-> <<>>, rest |-> <<>>, mtime |-> 1]
\* a one-line file modified later
NewFile == [sample |-> <<"b">>, rest |-> <<>>, mtime |-> 2]

\* files that are read without an error, or skipped as binary
SoundFiles == {TextFile, EmptyFile, NulFile, BadSampleFile}

\* files around the detector's sample and the full read
FilePool == {TextFile, NulFile, BadRestFile, NulRestFile}

\* the files of a tree that is read twice
TreeFiles == {TextFile, NewFile, NulFile}

\* the call that fails while a candidate is processed, or "none":
\* "sample"   open/read in is_binary_file raises IOError (lines 33-34)
\* "open"     open(file_path, 'r') raises PermissionError (line 377)
\* "getsize"  os.path.getsize raises OSError (line 381)
\* "getmtime" os.path.getmtime raises OSError (line 388)
\* "getmtime2" os.path.getmtime raises OSError (line 394)
Faults == {"none", "sample", "open", "getsize", "getmtime", "getmtime2"}

Bytes(file) == file.sample \o file.rest

Has(bytes, b) == \E i \in 1..Len(bytes) : bytes[i] = b

\* bytes.decode('utf-8') succeeds
DecodesUtf8(bytes) == ~Has(bytes, BAD)

\* mutant of is_binary_file: no check for null bytes
is_binary_file_no_nul(file, fault) ==
    IF fault = "sample" THEN TRUE
    ELSE IF file.sample = <<>> THEN FALSE
    ELSE ~DecodesUtf8(file.sample)

\* is_binary_file(file_path)
is_binary_file(file, fault) ==
    IF fault = "sample" THEN TRUE
    ELSE IF file.sample = <<>> THEN FALSE
    ELSE IF Has(file.sample, NUL) THEN TRUE
    ELSE ~DecodesUtf8(file.sample)

\* len(content.splitlines())
LineCount(text) ==
    Cardinality({i \in 1..Len(text) : text[i] = NL})
      + (IF text # <<>> /\ text[Len(text)] # NL THEN 1 ELSE 0)

\* mutant of Outcome: a file the detector calls binary is read all the same
OutcomeReadsBinary(file, fault) ==
    IF fault = "open" THEN "perm"
    ELSE IF ~DecodesUtf8(Bytes(file)) THEN "utf8"
    ELSE IF fault \in {"getsize", "getmtime", "getmtime2"} THEN fault
    ELSE "ok"

\* what happens to one candidate (lines 369-405):
\* "binary" (line 372), "ok" (line 398), "perm" (line 399), "utf8" (line 401),
\* or the call whose OSError is caught at line 404
Outcome(file, fault) ==
    IF is_binary_file(file, fault) THEN "binary"
    ELSE IF fault = "open" THEN "perm"
    ELSE IF ~DecodesUtf8(Bytes(file)) THEN "utf8"
    ELSE IF fault \in {"getsize", "getmtime", "getmtime2"} THEN fault
    ELSE "ok"

ReadFailures == {"perm", "utf8", "getsize", "getmtime", "getmtime2"}

-----------------------------------------------------------------------------
(* build_code_prompt: selection *)

\* mutant of IsMinified: the .min check is dropped
IsMinifiedNever(f, exts) == FALSE

\* f.lower().endswith(tuple(f".min{e}" for e in extensions))  (line 356)
IsMinified(f, exts) == EndsWithTuple(Lower(f), MinTuple(exts)) = "true"

\* mutant of IsExcluded: the exclude_files check is dropped
IsExcludedNever(f, excl) == FALSE

\* f in exclude_files_set  (line 357): f is the bare name
IsExcluded(f, excl) == Path(<<>>, f) \in excl

\* the filter of the list comprehension, for one name (lines 355-357)
Selected(f, cfg) ==
    /\ EndsWithTuple(Lower(f), cfg.extensions) = "true"
    /\ ~IsMinified(f, cfg.extensions)
    /\ ~IsExcluded(f, cfg.exclude_files)

\* the list comprehension raises TypeError (line 359)
SelectRaises(fs, cfg) ==
    \E f \in fs : EndsWithTuple(Lower(f), cfg.extensions) = "TypeError"

\* reversed(s)
Reverse(s) == [i \in 1..Len(s) |-> s[Len(s) + 1 - i]]

\* mutant of ProjectFiles: the names are not in ascending order
ProjectFilesDescending(fs, cfg) == Reverse(Sorted({f \in fs : Selected(f, cfg)}))

\* project_files (lines 353-358)
ProjectFiles(fs, cfg) == Sorted({f \in fs : Selected(f, cfg)})

\* mutant of PruneDirs: nothing is pruned
PruneDirsNone(ds, excl) == ds

\* dirs[:] = [d for d in dirs if d not in exclude_dirs_set]  (line 338)
RECURSIVE PruneDirs(_, _)
PruneDirs(ds, excl) ==
    IF ds = <<>> THEN <<>>
    ELSE (IF BaseName(Head(ds)) \in excl THEN <<>> ELSE <<Head(ds)>>)
           \o PruneDirs(Tail(ds), excl)

\* lines 341-350: the directory's files are looked at
InFocus(rel_path, focus) ==
    \/ focus = {}
    \/ rel_path = <<>>
    \/ \E fd \in focus :
          \/ fd = rel_path
          \/ UnderDir(rel_path, fd)
          \/ UnderDir(fd, rel_path)

-----------------------------------------------------------------------------
(* build_code_prompt: the document *)

NoPath == Path(<<>>, <<>>)

Seg(kind, path, nfiles, nlines, size, binary, text) ==
    [kind |-> kind, path |-> path, files |-> nfiles, lines |-> nlines,
     size |-> size, binary |-> binary, text |-> text]

\* str(n) of an int
Str(n) == ToString(n)

\* the title line carries the time of the run
TitleSeg(now) == Seg("title", NoPath, 0, 0, 0, 0, <<Str(now)>>)
DelimSeg == Seg("###", NoPath, 0, 0, 0, 0, <<>>)
\* mutant of MetaSeg: the metadata line carries the time of the run in
\* place of the modification time
MetaSegNow(path, nlines, size, mtime) ==
    Seg("meta", path, 0, nlines, size, 0, full_content[1].text)

\* the metadata line carries the path, the line count, the size and the
\* modification time
MetaSeg(path, nlines, size, mtime) ==
    Seg("meta", path, 0, nlines, size, 0, <<Str(mtime)>>)
ContentSeg(path, text) == Seg("content", path, 0, 0, 0, 0, text)
ClosingSeg(n, nlines, size, binary) == Seg("closing", NoPath, n, nlines, size, binary, <<>>)
ErrorsSeg == Seg("errors", NoPath, 0, 0, 0, 0, <<>>)
ErrorSeg(e) == Seg("error", e.path, 0, 0, 0, 0, <<e.reason>>)
EndSeg == Seg("END", NoPath, 0, 0, 0, 0, <<>>)

\* the text of one element of full_content; the fixed part of every line
\* that is not file content is one character of the model
Render(seg) ==
    CASE seg.kind = "title" -> <<"T">> \o seg.text
      [] seg.kind = "###" -> <<"#", "#", "#">>
      [] seg.kind = "meta" -> <<"M">>
      [] seg.kind = "content" -> seg.text
      [] seg.kind = "closing" -> <<"F">>
      [] seg.kind = "errors" -> <<NL, "E">>
      [] seg.kind = "error" -> <<"-">> \o seg.text
      [] seg.kind = "END" -> <<"Z">>

\* "\n".join(full_content)  (line 421)
RECURSIVE Join(_)
Join(segs) ==
    IF segs = <<>> THEN <<>>
    ELSE IF Len(segs) = 1 THEN Render(segs[1])
    ELSE Render(Head(segs)) \o <<NL>> \o Join(Tail(segs))

\* "\n".join(lines) for a list of texts
RECURSIVE JoinText(_)
JoinText(lines) ==
    IF lines = <<>> THEN <<>>
    ELSE IF Len(lines) = 1 THEN lines[1]
    ELSE Head(lines) \o <<NL>> \o JoinText(Tail(lines))

\* the fraction n / unit rounded to `scale` (10 or 100) parts, half to even,
\* as the format specs .1f and .2f round it
Rounded(n, unit, scale) ==
    LET q == (n * scale) \div unit
        r == (n * scale) % unit
    IN  IF 2 * r > unit \/ (2 * r = unit /\ q % 2 = 1) THEN q + 1 ELSE q

format_file_size(size_in_bytes) ==
    IF size_in_bytes < 1024
    THEN <<Str(size_in_bytes), " bytes">>
    ELSE IF size_in_bytes < 1024 * 1024
    THEN LET t == Rounded(size_in_bytes, 1024, 10)
         IN  <<Str(t \div 10), ".", Str(t % 10), " KB">>
    ELSE LET h == Rounded(size_in_bytes, 1024 * 1024, 100)
         IN  <<Str(h \div 100), ".", Str((h % 100) \div 10), Str(h % 10), " MB">>

\* a relative directory as text: os.path.join of its segments
RECURSIVE DirText(_)
DirText(d) ==
    IF d = <<>> THEN <<>>
    ELSE IF Len(d) = 1 THEN <<d[1]>>
    ELSE <<d[1], "/">> \o DirText(Tail(d))

\* relative_path as text
PathText(q) == IF q.dir = <<>> THEN q.name ELSE DirText(q.dir) \o <<"/">> \o q.name

\* os.path.dirname(file_path), "." when empty  (lines 205-207)
DirName(q) == IF q.dir = <<>> THEN <<".">> ELSE DirText(q.dir)

\* os.path.splitext(file_path)[1].lower() or "(no extension)"  (line 177)
Ext(q) ==
    LET dots == {i \in 2..Len(q.name) :
                   q.name[i] = "." /\ \E j \in 1..(i - 1) : q.name[j] # "."}
    IN  IF dots = {} THEN <<"(no extension)">>
        ELSE Lower(SubSeq(q.name, SetMax(dots), Len(q.name)))

RECURSIVE Sum(_)
Sum(ns) == IF ns = <<>> THEN 0 ELSE Head(ns) + Sum(Tail(ns))

\* the distinct values of a list, in order of first appearance (the keys of
\* a dict filled in that order)
RECURSIVE Keys(_)
Keys(xs) ==
    IF xs = <<>> THEN <<>>
    ELSE LET init == Keys(SubSeq(xs, 1, Len(xs) - 1))
             x == xs[Len(xs)]
         IN  IF \E i \in 1..Len(init) : init[i] = x THEN init ELSE Append(init, x)

\* sorted(items, key=..., reverse=True): descending by key, items with equal
\* keys keep their order
RECURSIVE SortDesc(_)
SortDesc(items) ==
    IF items = <<>> THEN <<>>
    ELSE LET top == SetMax({items[i].key : i \in 1..Len(items)})
             k == SetMin({i \in 1..Len(items) : items[i].key = top})
         IN  <<items[k]>>
               \o SortDesc(SubSeq(items, 1, k - 1) \o SubSeq(items, k + 1, Len(items)))

\* s[:10]
Top10(s) == SubSeq(s, 1, Min(10, Len(s)))

\* lines 192-196: one line per extension, sorted by extension
TypeLines(stats) ==
    LET exts == Sorted({Ext(stats[i].path) : i \in 1..Len(stats)})
        Line(e) ==
            LET files == SelectSeq(stats, LAMBDA st : Ext(st.path) = e)
            IN  <<"-">> \o e \o <<Str(Len(files)),
                                   Str(Sum([i \in 1..Len(files) |-> files[i].lines]))>>
                      \o format_file_size(Sum([i \in 1..Len(files) |-> files[i].size]))
    IN  [i \in 1..Len(exts) |-> Line(exts[i])]

\* lines 202-219: the directories, those with most files first
DirLines(stats) ==
    LET names == Keys([i \in 1..Len(stats) |-> DirName(stats[i].path)])
        Group(d) == SelectSeq(stats, LAMBDA st : DirName(st.path) = d)
        sorted_dirs == SortDesc([i \in 1..Len(names) |->
                                   [key |-> Len(Group(names[i])), dir |-> names[i]]])
        Line(it) ==
            LET files == Group(it.dir)
            IN  <<"-">> \o it.dir \o <<Str(Len(files)),
                                        Str(Sum([i \in 1..Len(files) |-> files[i].lines]))>>
        shown == Top10(sorted_dirs)
    IN  [i \in 1..Len(shown) |-> Line(shown[i])]
          \o (IF Len(sorted_dirs) > 10
              THEN << <<"...", Str(Len(sorted_dirs) - 10)>> >> ELSE <<>>)

\* lines 221-226: the files with most lines first
LargestLines(stats) ==
    LET largest_files == Top10(SortDesc([i \in 1..Len(stats) |->
                                [key |-> stats[i].lines, st |-> stats[i]]]))
    IN  [i \in 1..Len(largest_files) |->
           <<"-">> \o PathText(largest_files[i].st.path)
                  \o <<Str(largest_files[i].st.lines)>>
                  \o format_file_size(largest_files[i].st.size)]

\* lines 228-234: the files modified last first
RecentLines(stats) ==
    LET recent_files == Top10(SortDesc([i \in 1..Len(stats) |->
                               [key |-> stats[i].modified, st |-> stats[i]]]))
    IN  [i \in 1..Len(recent_files) |->
           <<"-">> \o PathText(recent_files[i].st.path)
                  \o <<Str(recent_files[i].st.modified)>>]

\* generate_project_summary(file_stats, target_dir, total_size, binary_count);
\* the fixed text of a heading is one character of the model
generate_project_summary(stats, size, binary) ==
    JoinText(<< <<"S">>, <<>>, <<"R">>, <<"N", Str(Len(stats))>>,
                <<"B">> \o format_file_size(size) >>
             \o (IF binary > 0 THEN << <<"K", Str(binary)>> >> ELSE <<>>)
             \o << <<>>, <<"Y">> >> \o TypeLines(stats)
             \o << <<>>, <<"D">> >> \o DirLines(stats)
             \o << <<>>, <<"L">> >> \o LargestLines(stats)
             \o << <<>>, <<"Q">> >> \o RecentLines(stats))

\* lines 408-428: the document as one string
ContentStr(fc, errs, cfg, n, nlines, size, binary, stats) ==
    LET closed == fc \o <<ClosingSeg(n, nlines, size, binary)>>
                     \o (IF errs # <<>>
                         THEN <<ErrorsSeg>> \o [i \in 1..Len(errs) |-> ErrorSeg(errs[i])]
                         ELSE <<>>)
                     \o <<EndSeg>>
        joined == Join(closed)
        summary_pos == FindDelim(joined, 0) + 5
    IN  IF cfg.include_summary /\ n > 0
        THEN Slice(joined, 0, summary_pos)
               \o generate_project_summary(stats, size, binary)
               \o <<NL, NL, "#", "#", "#", NL>>
               \o Slice(joined, summary_pos, Len(joined))
        ELSE joined

\* the default of chunk_output's parameter overlap
DefaultOverlap == 200

\* lines 434-451: the texts to write, in order
OutputTexts(text, cfg) ==
    IF cfg.chunk_size > 0
    THEN chunk_output(text, cfg.chunk_size, DefaultOverlap)
    ELSE <<text>>

\* the name of the i-th output file: 0 is output_file, i > 0 is _part<i>
OutputName(i, n, cfg) == IF cfg.chunk_size > 0 /\ n > 1 THEN i ELSE 0

-----------------------------------------------------------------------------
(* load_config and merge_config_with_args *)

\* a list that is only ever turned into a set (lines 128-135, 312-314) is a
\* set; an optional int is <<>> for None and <<n>> for n

\* lines 64-72
defaults ==
    [extensions |-> <<".html", ".css", ".js", ".py", ".md", ".json">>,
     exclude_files |-> {},
     exclude_dirs |-> {".git", ".venv", "venv", "node_modules", "__pycache__",
                       ".idea", ".vscode", "dist", "build", "env",
                       ".pytest_cache"},
     focus_dirs |-> {},
     chunk_size |-> <<>>,
     include_summary |-> TRUE]

\* one key of the JSON object in the file: "missing", "ok" with a value of
\* the type of the default, or "badtype" with a value of another type
Stored(st, v) == [st |-> st, v |-> v]

\* the object json.dump(defaults, f) writes (line 77)
DefaultsObject == [k \in DOMAIN defaults |-> Stored("ok", defaults[k])]

\* the config file: "absent", "unreadable" (open raises), "invalid" (not
\* JSON), "nonobject" (JSON, but a list, a number, a string, true or null),
\* or "object" with what it stores
File(state, stored) == [state |-> state, stored |-> stored]

AbsentFile == File("absent", DefaultsObject)

StoredObjects ==
    [extensions : {Stored("missing", <<>>), Stored("badtype", <<>>),
                   Stored("ok", <<".py">>)},
     exclude_files : {Stored("missing", {}), Stored("ok", {"x.py"})},
     exclude_dirs : {Stored("badtype", {}), Stored("ok", {".git"})},
     focus_dirs : {Stored("missing", {}), Stored("ok", {"src"})},
     chunk_size : {Stored("missing", <<>>), Stored("ok", <<5>>)},
     include_summary : {Stored("ok", FALSE), Stored("badtype", TRUE)}]

ConfigFiles ==
    {AbsentFile, File("unreadable", DefaultsObject), File("invalid", DefaultsObject),
     File("nonobject", DefaultsObject)}
      \cup {File("object", o) : o \in StoredObjects}

\* what open(config_file, 'w') does when the file is created (lines 75-84)
CreateFaults == {"none", "perm", "os"}

\* the default of key k is None (line 70)
DefaultIsNone(k) == k = "chunk_size"

\* lines 91-100: missing keys and keys of the wrong type take the default;
\* any value is allowed where the default is None
Validate(object) ==
    [k \in DOMAIN defaults |->
       IF object[k].st = "missing" THEN defaults[k]
       ELSE IF object[k].st = "badtype" /\ ~DefaultIsNone(k) THEN defaults[k]
       ELSE object[k].v]

\* load_config(): what it returns or raises, and the file it leaves
load_config(file, create) ==
    IF file.state = "absent" /\ create # "none"
    THEN [raised |-> "none", config |-> defaults, file |-> file]
    ELSE LET f == IF file.state = "absent" THEN File("object", DefaultsObject)
                  ELSE file
         IN  CASE f.state \in {"unreadable", "invalid"} ->
                    [raised |-> "none", config |-> defaults, file |-> f]
               [] f.state = "nonobject" ->
                    [raised |-> "TypeError", config |-> defaults, file |-> f]
               [] f.state = "object" ->
                    [raised |-> "none", config |-> Validate(f.stored), file |-> f]

NoLoaded == [raised |-> "none", config |-> defaults, before |-> AbsentFile,
             create |-> "none"]

\* the parsed command line (lines 466-490)
NoArgs == [extensions |-> <<>>, exclude_files |-> {}, exclude_dirs |-> {},
           focus_dirs |-> {}, chunk_size |-> <<>>, no_summary |-> FALSE,
           no_default_excludes |-> FALSE]

ArgChoices ==
    [extensions : {<<>>, <<".js">>},
     exclude_files : {{}, {"y.py"}},
     exclude_dirs : {{}, {"tmp"}},
     focus_dirs : {{}, {"lib"}},
     chunk_size : {<<>>, <<0>>},
     no_summary : BOOLEAN,
     no_default_excludes : BOOLEAN]

\* mutant of merge_config_with_args: --no-default-excludes is ignored
merge_config_keeps_defaults(cfg, a) ==
    [cfg EXCEPT
       !.extensions = IF a.extensions # <<>> THEN a.extensions ELSE @,
       !.exclude_files = @ \cup a.exclude_files,
       !.exclude_dirs = @ \cup a.exclude_dirs,
       !.focus_dirs = @ \cup a.focus_dirs,
       !.chunk_size = IF a.chunk_size # <<>> THEN a.chunk_size ELSE @,
       !.include_summary = IF a.no_summary THEN FALSE ELSE @]

\* merge_config_with_args(config, args)  (lines 113-157)
merge_config_with_args(cfg, a) ==
    LET merged ==
          [cfg EXCEPT
             !.extensions = IF a.extensions # <<>> THEN a.extensions ELSE @,
             !.exclude_files = IF a.exclude_files # {} THEN @ \cup a.exclude_files ELSE @,
             !.exclude_dirs = IF a.exclude_dirs # {} THEN @ \cup a.exclude_dirs ELSE @,
             !.focus_dirs = IF a.focus_dirs # {} THEN @ \cup a.focus_dirs ELSE @,
             !.chunk_size = IF a.chunk_size # <<>> THEN a.chunk_size ELSE @,
             !.include_summary = IF a.no_summary THEN FALSE ELSE @]
    IN  IF a.no_default_excludes
        THEN [merged EXCEPT
                !.exclude_files = IF a.exclude_files # {} THEN a.exclude_files ELSE {},
                !.exclude_dirs = IF a.exclude_dirs # {} THEN a.exclude_dirs ELSE {}]
        ELSE merged

-----------------------------------------------------------------------------
(* build_code_prompt: the steps *)

NoLast == [path |-> NoPath, file |-> EmptyFile, fault |-> "none", outcome |-> "none"]

NoResult == [success |-> FALSE, file_count |-> 0, total_lines |-> 0,
             total_size |-> 0, binary_count |-> 0, errors |-> <<>>,
             output_files |-> <<>>, returned |-> FALSE]

BuildInit(configs) ==
    /\ config \in configs
    /\ pc = "start"
    /\ walk = <<>>
    /\ visited = {}
    /\ root = <<>>
    /\ min_seen = FALSE
    /\ project_files = <<>>
    /\ errors = <<>>
    /\ file_count = 0
    /\ total_lines = 0
    /\ total_size = 0
    /\ binary_count = 0
    /\ file_stats = <<>>
    /\ full_content = <<>>
    /\ nselected = 0
    /\ nprocessed = 0
    /\ last = NoLast
    /\ content_str = <<>>
    /\ fatal = "none"
    /\ disk = <<>>
    /\ result = NoResult

\* mutant of Returned: only the last error is reported
ReturnedLastError(ok, errs, outs) ==
    [success |-> ok, file_count |-> file_count, total_lines |-> total_lines,
     total_size |-> total_size, binary_count |-> binary_count,
     errors |-> IF errs = <<>> THEN <<>> ELSE <<errs[Len(errs)]>>,
     output_files |-> outs, returned |-> TRUE]

\* the return statements of lines 453-463
Returned(ok, errs, outs) ==
    [success |-> ok, file_count |-> file_count, total_lines |-> total_lines,
     total_size |-> total_size, binary_count |-> binary_count,
     errors |-> errs, output_files |-> outs, returned |-> TRUE]

FatalEntry(kind) == [path |-> NoPath, reason |-> kind]

\* lines 323-334: os.makedirs, the title line and the first delimiter;
\* clocks are the times datetime.now() may return
Start(clocks) ==
    /\ pc = "start"
    /\ \E ok \in BOOLEAN, now \in clocks :
          IF ok
          THEN /\ full_content' = <<TitleSeg(now), DelimSeg>>
               /\ walk' = << <<>> >>
               /\ pc' = "walk"
               /\ UNCHANGED <<fatal, result>>
          ELSE /\ fatal' = "makedirs"
               /\ result' = Returned(FALSE, errors \o <<FatalEntry("write")>>, <<>>)
               /\ pc' = "done"
               /\ UNCHANGED <<full_content, walk>>
    /\ UNCHANGED <<config, visited, root, min_seen, project_files, errors,
                   file_count, total_lines, total_size, binary_count,
                   file_stats, nselected, nprocessed, last, content_str, disk>>
    /\ UNCHANGED <<chunkVars, twiceVars, mainVars>>

\* one iteration of the os.walk loop up to the file loop (lines 336-361)
WalkDir(listings) ==
    /\ pc = "walk"
    /\ walk # <<>>
    /\ LET d == Head(walk)
       IN  /\ root' = d
           /\ visited' = visited \cup {d}
           /\ walk' = PruneDirs(SubDirs(d), config.exclude_dirs) \o Tail(walk)
           /\ \E fs \in listings :
                 /\ IF ~InFocus(d, config.focus_dirs)
                    THEN /\ project_files' = <<>>
                         /\ errors' = errors
                         /\ min_seen' = min_seen
                    ELSE IF SelectRaises(fs, config)
                    THEN /\ project_files' = <<>>
                         /\ errors' = Append(errors, [path |-> Path(d, <<>>),
                                                      reason |-> "type"])
                         /\ min_seen' = min_seen
                    ELSE /\ project_files' = ProjectFiles(fs, config)
                         /\ errors' = errors
                         /\ min_seen' = (min_seen \/ \E f \in fs :
                                            \E i \in 1..Len(config.extensions) :
                                               EndsWith(Lower(f), MinTuple(config.extensions)[i]))
                 /\ nselected' = nselected + Len(project_files')
                 /\ nselected' <= MaxFiles
                 /\ pc' = IF project_files' # <<>> THEN "files" ELSE "walk"
    /\ UNCHANGED <<config, file_count, total_lines, total_size, binary_count,
                   file_stats, full_content, nprocessed, last, content_str,
                   fatal, disk, result>>
    /\ UNCHANGED <<chunkVars, twiceVars, mainVars>>

\* mutant of Remaining: a failed read ends the directory's file loop
RemainingAbortsOnError(pf, outcome) ==
    IF outcome \in ReadFailures THEN <<>> ELSE Tail(pf)

\* the candidates left for the loop of line 363 after one iteration
Remaining(pf, outcome) == Tail(pf)

\* one iteration of the file loop (lines 363-405)
ProcessFile(pool, faults) ==
    /\ pc = "files"
    /\ project_files # <<>>
    /\ \E file \in pool, fault \in faults :
          LET filename == Head(project_files)
              relative_path == Path(root, filename)
              outcome == Outcome(file, fault)
              text == Bytes(file)
              line_count == LineCount(text)
              file_size == Len(text)
          IN  /\ last' = [path |-> relative_path, file |-> file,
                          fault |-> fault, outcome |-> outcome]
              /\ file_count' = IF outcome = "binary" THEN file_count
                               ELSE file_count + 1
              /\ binary_count' = IF outcome \in {"binary", "utf8"}
                                 THEN binary_count + 1 ELSE binary_count
              /\ total_lines' = IF outcome \in {"ok", "getsize", "getmtime", "getmtime2"}
                                THEN total_lines + line_count ELSE total_lines
              /\ total_size' = IF outcome \in {"ok", "getmtime", "getmtime2"}
                               THEN total_size + file_size ELSE total_size
              /\ file_stats' = IF outcome \in {"ok", "getmtime2"}
                               THEN Append(file_stats,
                                           [path |-> relative_path,
                                            lines |-> line_count,
                                            size |-> file_size,
                                            modified |-> file.mtime])
                               ELSE file_stats
              /\ full_content' = IF outcome = "ok"
                                 THEN full_content \o
                                        <<MetaSeg(relative_path, line_count, file_size,
                                                  file.mtime),
                                          ContentSeg(relative_path, text),
                                          DelimSeg>>
                                 ELSE full_content
              /\ errors' = CASE outcome = "perm" ->
                                  Append(errors, [path |-> relative_path, reason |-> "perm"])
                             [] outcome = "utf8" ->
                                  Append(errors, [path |-> relative_path, reason |-> "utf8"])
                             [] outcome \in {"getsize", "getmtime", "getmtime2"} ->
                                  Append(errors, [path |-> relative_path, reason |-> "os"])
                             [] OTHER -> errors
              /\ project_files' = Remaining(project_files, outcome)
              /\ pc' = IF project_files' # <<>> THEN "files" ELSE "walk"
    /\ nprocessed' = nprocessed + 1
    /\ UNCHANGED <<config, walk, visited, root, min_seen, nselected,
                   content_str, fatal, disk, result>>
    /\ UNCHANGED <<chunkVars, twiceVars, mainVars>>

\* the files on disk after the writes of lines 436-451, when the call
\* `call` ("open" or "write") of the k-th file fails (k = 0: none fails)
RECURSIVE Written(_, _, _, _, _)
Written(texts, i, k, call, cfg) ==
    IF i > Len(texts) \/ (i = k /\ call = "open") THEN <<>>
    ELSE IF i = k
    THEN <<[name |-> OutputName(i, Len(texts), cfg), text |-> <<>>, complete |-> FALSE]>>
    ELSE <<[name |-> OutputName(i, Len(texts), cfg), text |-> texts[i], complete |-> TRUE]>>
           \o Written(texts, i + 1, k, call, cfg)

\* lines 407-463: closing line, error list, END, summary, chunking, writing
Finish ==
    /\ pc = "walk"
    /\ walk = <<>>
    /\ LET text == ContentStr(full_content, errors, config, file_count,
                              total_lines, total_size, binary_count, file_stats)
           texts == OutputTexts(text, config)
           n == Len(texts)
       IN  /\ content_str' = text
           /\ full_content' = full_content
                 \o <<ClosingSeg(file_count, total_lines, total_size, binary_count)>>
                 \o (IF errors # <<>>
                     THEN <<ErrorsSeg>> \o [i \in 1..Len(errors) |-> ErrorSeg(errors[i])]
                     ELSE <<>>)
                 \o <<EndSeg>>
           /\ \E k \in 0..Min(n, 2), call \in {"open", "write"} :
                 /\ k = 0 => call = "open"
                 /\ disk' = Written(texts, 1, k, call, config)
                 /\ IF k = 0
                    THEN /\ fatal' = "none"
                         /\ result' = Returned(TRUE, errors,
                                               [i \in 1..n |-> OutputName(i, n, config)])
                    ELSE /\ fatal' = call
                         /\ result' = Returned(FALSE,
                                               errors \o <<FatalEntry("write")>>, <<>>)
    /\ pc' = "done"
    /\ last' = NoLast
    /\ UNCHANGED <<config, walk, visited, root, min_seen, project_files, errors,
                   file_count, total_lines, total_size, binary_count,
                   file_stats, nselected, nprocessed>>
    /\ UNCHANGED <<chunkVars, twiceVars, mainVars>>

-----------------------------------------------------------------------------
(* The specifications *)

ChunkIdle ==
    /\ content = <<>>
    /\ max_tokens = 1
    /\ overlap = 0
    /\ start = 0
    /\ chunks = <<>>
    /\ spans = <<>>
    /\ cpc = "idle"

BuildIdle ==
    /\ config = CHOOSE c \in OutputConfigs : TRUE
    /\ pc = "idle"
    /\ walk = <<>>
    /\ visited = {}
    /\ root = <<>>
    /\ min_seen = FALSE
    /\ project_files = <<>>
    /\ errors = <<>>
    /\ file_count = 0
    /\ total_lines = 0
    /\ total_size = 0
    /\ binary_count = 0
    /\ file_stats = <<>>
    /\ full_content = <<>>
    /\ nselected = 0
    /\ nprocessed = 0
    /\ last = NoLast
    /\ content_str = <<>>
    /\ fatal = "none"
    /\ disk = <<>>
    /\ result = NoResult

\* no tree is fixed in advance and there is one run
NoTree == [listing |-> <<>>, file |-> <<>>, fault |-> <<>>]

NoFirst == [title |-> <<>>, summary |-> <<>>, blocks |-> <<>>, body |-> <<>>,
            assembled |-> FALSE]

TwiceIdle ==
    /\ tree = NoTree
    /\ run = 1
    /\ first = NoFirst

MainIdle ==
    /\ config_file = AbsentFile
    /\ args = NoArgs
    /\ loaded = NoLoaded
    /\ merged_config = defaults
    /\ mpc = "idle"

ChunkInit ==
    /\ content \in Docs
    /\ max_tokens \in 1..MaxTokens
    /\ overlap \in 0..MaxOverlap
    /\ start = 0
    /\ chunks = <<>>
    /\ spans = <<>>
    /\ cpc = "loop"
    /\ BuildIdle
    /\ TwiceIdle
    /\ MainIdle

\* one iteration of the while loop (lines 258-280)
ChunkLoop ==
    /\ cpc = "loop"
    /\ start < Len(content)
    /\ LET max_chars == max_tokens * chars_per_token
           overlap_chars == overlap * chars_per_token
           end == ChunkEnd(content, start, max_chars)
       IN  /\ chunks' = Append(chunks, Slice(content, start, end))
           /\ spans' = Append(spans, [start |-> start, end |-> end,
                                      raw |-> RawCut(content, start, max_chars)])
           /\ IF end < Len(content)
              THEN /\ start' = NextStart(content, start, end, overlap_chars)
                   /\ cpc' = "loop"
              ELSE /\ start' = start
                   /\ cpc' = "done"
    /\ UNCHANGED <<content, max_tokens, overlap>>
    /\ UNCHANGED <<buildVars, twiceVars, mainVars>>

\* the loop condition is false (line 258): return chunks (line 282)
ChunkReturn ==
    /\ cpc = "loop"
    /\ start >= Len(content)
    /\ cpc' = "done"
    /\ UNCHANGED <<content, max_tokens, overlap, start, chunks, spans>>
    /\ UNCHANGED <<buildVars, twiceVars, mainVars>>

ChunkNext == ChunkLoop \/ ChunkReturn

\* chunk_output on a document, a budget and an overlap
ChunkSpec == ChunkInit /\ [][ChunkNext]_vars

\* the same, for a call that is not interrupted: the loop keeps running
\* while its condition holds
ChunkLiveSpec == ChunkInit /\ [][ChunkNext]_vars /\ WF_vars(ChunkNext)

\* build_code_prompt on any tree, with a file system that may fail
Init == BuildInit(OutputConfigs) /\ ChunkIdle /\ TwiceIdle /\ MainIdle

Next ==
    \/ Start(OneClock)
    \/ WalkDir(PlainListing)
    \/ ProcessFile(FilePool, Faults)
    \/ Finish

Spec == Init /\ [][Next]_vars

\* line 496: config = load_config()
LoadConfig ==
    /\ mpc = "load"
    /\ \E create \in CreateFaults :
          LET r == load_config(config_file, create)
          IN  /\ loaded' = [raised |-> r.raised, config |-> r.config,
                            before |-> config_file,
                            create |-> IF config_file.state = "absent"
                                       THEN create ELSE "none"]
              /\ config_file' = r.file
              /\ mpc' = IF r.raised = "none" THEN "merge" ELSE "done"
    /\ UNCHANGED <<args, merged_config>>
    /\ UNCHANGED <<chunkVars, buildVars, twiceVars>>

\* lines 490-497: merged_config = merge_config_with_args(config, args)
MergeArgs ==
    /\ mpc = "merge"
    /\ \E a \in ArgChoices :
          /\ args' = a
          /\ merged_config' = merge_config_with_args(loaded.config, a)
    /\ mpc' = "done"
    /\ UNCHANGED <<config_file, loaded>>
    /\ UNCHANGED <<chunkVars, buildVars, twiceVars>>

MainInit ==
    /\ config_file \in ConfigFiles
    /\ args = NoArgs
    /\ loaded = NoLoaded
    /\ merged_config = defaults
    /\ mpc = "load"
    /\ ChunkIdle
    /\ BuildIdle
    /\ TwiceIdle

MainNext == LoadConfig \/ MergeArgs

\* __main__ up to the call of build_code_prompt, on any config file and any
\* command line
MainSpec == MainInit /\ [][MainNext]_vars

\* the directory trees that are read twice: the listing of every directory,
\* and for every file name its bytes, its modification time and whether
\* open(file_path, 'r') is denied
TreeNames == {a_js, B_JS}

TreeSize(listing) ==
    Sum([i \in 1..Len(Dirs) |-> Cardinality(listing[Dirs[i]])])

Trees ==
    {t \in [listing : [DirSet -> PlainListing],
            file : [TreeNames -> TreeFiles],
            fault : [TreeNames -> {"none", "open"}]] :
       /\ t.listing[<<"src", "node_modules">>] = {}
       /\ TreeSize(t.listing) <= MaxFiles}

\* what the tree answers where the run is
TreeListing == IF walk = <<>> THEN {} ELSE {tree.listing[Head(walk)]}
TreeFile == IF project_files = <<>> THEN {} ELSE {tree.file[Head(project_files)]}
TreeFault == IF project_files = <<>> THEN {} ELSE {tree.fault[Head(project_files)]}

\* the per-file blocks of the document, in order
BlockSegs == SelectSeq(full_content, LAMBDA seg : seg.kind \in {"meta", "content"})

\* the summary block of the document (lines 424-425), empty when absent
SummaryBlock ==
    IF config.include_summary /\ file_count > 0
    THEN generate_project_summary(file_stats, total_size, binary_count)
    ELSE <<>>

\* the document without its title line
Body(text) == SubSeq(text, SetMin({i \in 1..Len(text) : text[i] = NL}), Len(text))

\* the same call of build_code_prompt is made again
Rerun ==
    /\ pc = "done"
    /\ run = 1
    /\ run' = 2
    /\ first' = IF fatal = "makedirs" THEN NoFirst
                ELSE [title |-> Render(full_content[1]), summary |-> SummaryBlock,
                      blocks |-> BlockSegs, body |-> Body(content_str),
                      assembled |-> TRUE]
    /\ pc' = "start"
    /\ walk' = <<>>
    /\ visited' = {}
    /\ root' = <<>>
    /\ min_seen' = FALSE
    /\ project_files' = <<>>
    /\ errors' = <<>>
    /\ file_count' = 0
    /\ total_lines' = 0
    /\ total_size' = 0
    /\ binary_count' = 0
    /\ file_stats' = <<>>
    /\ full_content' = <<>>
    /\ nselected' = 0
    /\ nprocessed' = 0
    /\ last' = NoLast
    /\ content_str' = <<>>
    /\ fatal' = "none"
    /\ disk' = <<>>
    /\ result' = NoResult
    /\ UNCHANGED <<config, tree>>
    /\ UNCHANGED <<chunkVars, mainVars>>

TwiceInit ==
    /\ BuildInit(TwiceConfigs)
    /\ tree \in Trees
    /\ run = 1
    /\ first = NoFirst
    /\ ChunkIdle
    /\ MainIdle

TwiceNext ==
    \/ Start(TwoClocks)
    \/ WalkDir(TreeListing)
    \/ ProcessFile(TreeFile, TreeFault)
    \/ Finish
    \/ Rerun

\* two runs of build_code_prompt on one unchanged tree with one configuration
TwiceSpec == TwiceInit /\ [][TwiceNext]_vars

\* build_code_prompt under every selection rule, with a sound file system
SelectInit == BuildInit(SelectConfigs) /\ ChunkIdle /\ TwiceIdle /\ MainIdle

SelectNext ==
    \/ Start(OneClock)
    \/ WalkDir(AnyListing)
    \/ ProcessFile(SoundFiles, {"none"})
    \/ Finish

SelectSpec == SelectInit /\ [][SelectNext]_vars

-----------------------------------------------------------------------------
(* Properties of chunk_output, under ChunkSpec *)

max_chars == max_tokens * chars_per_token

NoRawCut == \A i \in 1..Len(spans) : ~spans[i].raw

\* the number of leading characters of chunk i that repeat the tail of
\* chunk i - 1
Repeated(i) ==
    IF i = 1 THEN 0
    ELSE Max(0, Min(Len(chunks[i]), spans[i - 1].end - spans[i].start))

\* the chunks in order, each without the part that repeats its predecessor
Rejoined ==
    Concat([i \in 1..Len(chunks) |->
              SubSeq(chunks[i], Repeated(i) + 1, Len(chunks[i]))])

\* C1: when no chunk is produced by a raw cut, the chunks returned, taken in
\* order with the part of each that repeats the tail of the previous one
\* removed, concatenate to exactly the original document.
C1_LosslessRejoin ==
    (cpc = "done" /\ NoRawCut) => Rejoined = content

\* a complete delimiter lies inside [chunk start, chunk start + max_chars)
WindowHasDelim(i) ==
    \E q \in spans[i].start..(spans[i].start + max_chars - DelimLen) :
       DelimAt(content, q)

EndsAfterDelim(i) ==
    /\ Len(chunks[i]) >= DelimLen
    /\ SubSeq(chunks[i], Len(chunks[i]) - DelimLen + 1, Len(chunks[i])) = Delim

\* C2: every chunk other than the last ends immediately after a complete
\* delimiter whenever a complete delimiter lies inside its window; a chunk
\* ends at a raw character position only when the window holds no delimiter.
C2_CutsAtDelimiter ==
    \A i \in 1..Len(spans) :
       spans[i].end < Len(content) =>
          /\ WindowHasDelim(i) => EndsAfterDelim(i)
          /\ spans[i].raw => ~WindowHasDelim(i)

C2_Witness ==
    /\ cpc = "done"
    /\ \E i \in 1..Len(spans) :
          spans[i].end < Len(content) /\ WindowHasDelim(i) /\ EndsAfterDelim(i)
    /\ \E j \in 1..Len(spans) : spans[j].raw

-----------------------------------------------------------------------------
(* Properties of the selection, under SelectSpec *)

\* the per-file blocks of the document: the positions of the metadata lines
Blocks == {i \in 1..Len(full_content) : full_content[i].kind = "meta"}

EmittedPaths == {full_content[i].path : i \in Blocks}

\* the lowercased name ends with one of the configured extensions
MatchesExtension(f) ==
    \E i \in 1..Len(config.extensions) :
       IsStr(config.extensions[i]) /\ EndsWith(Lower(f), config.extensions[i])

\* C3: every file that gets a per-file block has a lowercased name ending
\* with one of the configured extensions, and its path relative to the root
\* is not a member of exclude_files, for nested files as for root files.
C3_EmittedMatchAndPathNotExcluded ==
    \A q \in EmittedPaths :
       MatchesExtension(q.name) /\ q \notin config.exclude_files

\* C3, amended: every file that gets a per-file block has a lowercased name
\* ending with one of the configured extensions, and its bare file name is
\* not a member of exclude_files.
C3_EmittedMatchAndNameNotExcluded ==
    \A q \in EmittedPaths :
       MatchesExtension(q.name) /\ Path(<<>>, q.name) \notin config.exclude_files

C3_Witness ==
    /\ pc = "done"
    /\ config.exclude_files # {}
    /\ \E q \in EmittedPaths : q.dir # <<>>
    /\ \E q \in EmittedPaths : q.dir = <<>>

\* C4: when focus_dirs is non-empty, every file that gets a per-file block
\* lies under at least one focus directory; files directly in the root or in
\* a directory that is only an ancestor of a focus directory are not selected.
C4_EmittedUnderFocus ==
    config.focus_dirs # {} =>
       \A q \in EmittedPaths :
          \E fd \in config.focus_dirs : q.dir = fd \/ UnderDir(q.dir, fd)

\* a directory segment of d is in exclude_dirs
HasExcludedSegment(d) == \E i \in 1..Len(d) : d[i] \in config.exclude_dirs

\* the paths of the files the run has counted or emitted
TouchedPaths ==
    EmittedPaths
      \cup {file_stats[i].path : i \in 1..Len(file_stats)}
      \cup {errors[i].path : i \in 1..Len(errors)}
      \cup {Path(root, project_files[i]) : i \in 1..Len(project_files)}
      \cup (IF last.outcome # "none" THEN {last.path} ELSE {})

\* C5: no file whose relative path contains a directory segment whose bare
\* name is in exclude_dirs is ever visited, counted or emitted; the pruning
\* takes effect before the walk descends into that subdirectory.
C5_ExcludedDirsNeverVisited ==
    /\ \A d \in visited : ~HasExcludedSegment(d)
    /\ \A i \in 1..Len(walk) : ~HasExcludedSegment(walk[i])
    /\ \A q \in TouchedPaths : ~HasExcludedSegment(q.dir)

C5_Witness ==
    /\ pc = "done"
    /\ "node_modules" \in config.exclude_dirs
    /\ <<"src">> \in visited
    /\ \E q \in EmittedPaths : q.dir = <<"src">>

\* lowercase(f) ends with ".min" + e for some configured extension e
MinName(f) ==
    \E i \in 1..Len(config.extensions) :
       EndsWith(Lower(f), <<".", "m", "i", "n">> \o Format(config.extensions[i]))

\* C6: if lowercase(f) ends with ".min" + e for some e in the configured
\* extensions then f is never selected (never counted, never emitted), also
\* when the extensions themselves contain one of the form ".min.x".
C6_MinifiedNeverSelected ==
    \A q \in TouchedPaths : q.name # <<>> => ~MinName(q.name)

C6_Witness ==
    /\ pc = "done"
    /\ min_seen
    /\ \E i \in 1..Len(config.extensions) : config.extensions[i] = ext_min_js
    /\ EmittedPaths # {}

-----------------------------------------------------------------------------
(* Properties of the file loop and of the result, under Spec *)

\* the step is one iteration of the file loop
FileStep == nprocessed' = nprocessed + 1

\* C7: every candidate with a NUL byte in the sampled first bytes is
\* classified binary by is_binary_file, gets no per-file block, and raises
\* binary_count by exactly one.
C7_NulSampleIsBinary ==
    [][(FileStep /\ Has(last'.file.sample, NUL)) =>
          /\ is_binary_file(last'.file, last'.fault)
          /\ full_content' = full_content
          /\ binary_count' = binary_count + 1]_vars

C7_Witness ==
    /\ last.file = NulFile
    /\ last.fault = "none"
    /\ last.outcome = "binary"
    /\ binary_count = 1

\* C8: for each candidate the detector classifies as binary, the collector
\* increments binary_count and appends one ErrorEntry noting the skip, and
\* never opens the file for a full text read.
C8_BinarySkipIsLogged ==
    [][(FileStep /\ is_binary_file(last'.file, last'.fault)) =>
          /\ binary_count' = binary_count + 1
          /\ Len(errors') = Len(errors) + 1
          /\ errors'[Len(errors')].path = last'.path
          /\ last'.outcome = "binary"]_vars

\* C8, amended: for each candidate the detector classifies as binary, the
\* collector increments binary_count, appends no ErrorEntry, and never opens
\* the file for a full text read.
C8_BinarySkipIsCounted ==
    [][(FileStep /\ is_binary_file(last'.file, last'.fault)) =>
          /\ binary_count' = binary_count + 1
          /\ errors' = errors
          /\ last'.outcome = "binary"
          /\ file_count' = file_count
          /\ full_content' = full_content]_vars

C8_Witness ==
    /\ last.outcome = "binary"
    /\ last.fault = "sample"
    /\ binary_count >= 1
    /\ errors = <<>>

\* the full read of the candidate fails: the detector passed it, and an
\* OS call raises or the bytes are not UTF-8
ReadFails(file, fault) ==
    /\ ~is_binary_file(file, fault)
    /\ \/ fault \in {"open", "getsize", "getmtime", "getmtime2"}
       \/ ~DecodesUtf8(Bytes(file))

\* C9: when the full read of one candidate fails, exactly one ErrorEntry for
\* that file is appended, the file gets no per-file block, every candidate
\* that follows it is still processed, and the run still returns success.
C9_ReadFailureIsLocal ==
    /\ [][(FileStep /\ ReadFails(last'.file, last'.fault)) =>
             /\ Len(errors') = Len(errors) + 1
             /\ SubSeq(errors', 1, Len(errors)) = errors
             /\ errors'[Len(errors')].path = last'.path
             /\ full_content' = full_content
             /\ project_files' = Tail(project_files)
             /\ pc' \in {"files", "walk"}]_vars
    /\ []((pc = "done" /\ fatal = "none") =>
             (result.success /\ nprocessed = nselected))

C9_Witness ==
    /\ pc = "done"
    /\ result.success
    /\ Len(errors) = 1
    /\ errors[1].path.name = B_JS
    /\ \E q \in EmittedPaths : q.dir = errors[1].path.dir /\ q.name = a_js

\* the number n of the closing line "Files: n"
ClosingFiles ==
    LET i == CHOOSE j \in 1..Len(full_content) : full_content[j].kind = "closing"
    IN  full_content[i].files

\* C10: for every successful run, the number n of the closing line
\* "Files: n" (returned as file_count) equals the number of per-file blocks
\* of the document, also when some candidates fail to read.
C10_FilesEqualsBlocks ==
    (pc = "done" /\ result.success) =>
       /\ ClosingFiles = Cardinality(Blocks)
       /\ result.file_count = Cardinality(Blocks)

-----------------------------------------------------------------------------
(* Properties of the error list and of the output files, under Spec *)

\* the entries of the document's error list, in order
ErrorLines == SelectSeq(full_content, LAMBDA seg : seg.kind = "error")

\* the text of the error list and the END line
ErrorTail ==
    Join(<<ErrorsSeg>> \o [i \in 1..Len(errors) |-> ErrorSeg(errors[i])]
           \o <<EndSeg>>)

\* the parts of the document that the output files hold
WrittenSpans ==
    IF config.chunk_size > 0
    THEN SpansFrom(content_str, 0, config.chunk_size * chars_per_token,
                   DefaultOverlap * chars_per_token)
    ELSE <<[start |-> 0, end |-> Len(content_str)]>>

\* every character of the last n characters of the document is in an
\* output file
TailWritten(n) ==
    /\ Len(disk) = Len(WrittenSpans)
    /\ \A i \in 1..Len(disk) :
          disk[i].text = Slice(content_str, WrittenSpans[i].start, WrittenSpans[i].end)
    /\ \A q \in (Len(content_str) - n)..(Len(content_str) - 1) :
          \E i \in 1..Len(WrittenSpans) :
             WrittenSpans[i].start <= q /\ q < WrittenSpans[i].end

\* C11: the error list is append-only during a run (no entry is removed or
\* rewritten), and on every successful run each accumulated ErrorEntry
\* appears both in the document's error list and in the errors returned to
\* the caller, in the same order.
C11_ErrorsSurfacedTwice ==
    /\ [][/\ Len(errors') >= Len(errors)
          /\ SubSeq(errors', 1, Len(errors)) = errors]_vars
    /\ []((pc = "done" /\ result.success) =>
             /\ result.errors = errors
             /\ ErrorLines = [i \in 1..Len(errors) |-> ErrorSeg(errors[i])]
             /\ errors # <<>> =>
                   /\ EndsWith(content_str, <<NL>> \o ErrorTail)
                   /\ TailWritten(Len(ErrorTail)))

C11_Witness ==
    /\ pc = "done"
    /\ result.success
    /\ Len(errors) = 2
    /\ errors[1].reason # errors[2].reason
    /\ Len(disk) > 1

\* C12: when creating the output directory or opening or writing an output
\* file fails, the run is reported as failure (success false, no output
\* files) and no output file, partial or complete, is on disk; a failure
\* while writing chunk k > 1 leaves none of the earlier chunk files behind.
C12_FatalLeavesNoOutput ==
    (pc = "done" /\ fatal # "none") =>
       /\ ~result.success
       /\ result.output_files = <<>>
       /\ disk = <<>>

-----------------------------------------------------------------------------
(* Properties of the assembled document, under Spec *)

\* the place of a directory in the order os.walk yields the directories
DirIndex(d) == CHOOSE i \in 1..Len(Dirs) : Dirs[i] = d

\* p is selected before q: an earlier directory of the walk, or the same
\* directory and a lesser name
SelectedBefore(p, q) ==
    \/ DirIndex(p.dir) < DirIndex(q.dir)
    \/ p.dir = q.dir /\ StrLess(p.name, q.name)

NumBlocks == Cardinality(Blocks)

\* the per-file errors that are not counted as binary
NumUnreadable ==
    Cardinality({i \in 1..Len(errors) : errors[i].reason \in {"perm", "os"}})

SummaryPresent == config.include_summary /\ file_count > 0

\* the document as the claimed order of segments gives it
OrderedText ==
    Join(SubSeq(full_content, 1, 2)) \o <<NL>>
      \o (IF SummaryPresent
          THEN generate_project_summary(file_stats, total_size, binary_count)
                 \o <<NL, NL>> \o Render(DelimSeg) \o <<NL>>
          ELSE <<>>)
      \o Join(SubSeq(full_content, 3, Len(full_content)))

\* C13: in every assembled document the segments occur in this order: the
\* title line, a delimiter, the summary section if present followed by a
\* delimiter, one (metadata line, content, delimiter) triple per file read
\* successfully in selection order (walk order, names ascending within a
\* directory), the closing line, the error list if any, and END as the
\* last line; no per-file block comes after the closing line.
C13_SegmentOrder ==
    (pc = "done" /\ fatal # "makedirs") =>
       LET fc == full_content
           nb == NumBlocks
           ne == IF errors = <<>> THEN 0 ELSE 1 + Len(errors)
       IN  /\ Len(fc) = 3 * nb + 4 + ne
           /\ fc[1].kind = "title"
           /\ fc[2].kind = "###"
           /\ \A j \in 1..nb :
                 /\ fc[3 * j].kind = "meta"
                 /\ fc[3 * j + 1].kind = "content"
                 /\ fc[3 * j + 1].path = fc[3 * j].path
                 /\ fc[3 * j + 2].kind = "###"
           /\ \A j \in 1..(nb - 1) : SelectedBefore(fc[3 * j].path, fc[3 * j + 3].path)
           /\ nb = nprocessed - binary_count - NumUnreadable
           /\ fc[3 * nb + 3].kind = "closing"
           /\ ne > 0 => fc[3 * nb + 4].kind = "errors"
           /\ \A i \in 1..Len(errors) : fc[3 * nb + 4 + i].kind = "error"
           /\ fc[Len(fc)].kind = "END"
           /\ content_str = OrderedText
           /\ EndsWith(content_str, <<NL>> \o Render(EndSeg))

C13_Witness ==
    /\ pc = "done"
    /\ result.success
    /\ SummaryPresent
    /\ NumBlocks = 2
    /\ full_content[3].path.name = B_JS
    /\ full_content[6].path = Path(full_content[3].path.dir, a_js)

-----------------------------------------------------------------------------
(* Further properties of chunk_output, under ChunkSpec and ChunkLiveSpec *)

\* C14: for every pair of consecutive chunks returned with overlap > 0, the
\* later chunk starts at the first delimiter located at or after
\* (previous cut - overlap * 4), and the two chunks share a non-empty region
\* (the later chunk starts strictly before the position where the earlier
\* chunk ends).
C14_ConsecutiveChunksOverlap ==
    overlap > 0 =>
       \A i \in 1..(Len(spans) - 1) :
          LET d == FindDelim(content,
                             Max(0, spans[i].end - overlap * chars_per_token))
          IN  /\ d # -1
              /\ spans[i + 1].start \in {d, d + 1}
              /\ spans[i + 1].start < spans[i].end

\* C15: for every document whose length is less than max_tokens * 4,
\* chunk_output returns exactly one chunk, and it equals the whole document.
C15_ShortDocumentOneChunk ==
    (cpc = "done" /\ Len(content) < max_chars) => chunks = <<content>>

\* C15, amended: for every non-empty document whose length is less than
\* max_tokens * 4, chunk_output returns exactly one chunk, and it equals the
\* whole document; for the empty document it returns no chunk.
C15_ShortNonEmptyDocumentOneChunk ==
    (cpc = "done" /\ Len(content) < max_chars) =>
       IF content = <<>> THEN chunks = <<>> ELSE chunks = <<content>>

C15_Witness ==
    /\ cpc = "done"
    /\ Len(content) < max_chars
    /\ Len(content) > DelimLen
    /\ \E i \in 0..1 : DelimAt(content, i)
    /\ chunks = <<content>>

\* C16: for every document, every max_tokens >= 1 and every overlap >= 0
\* the loop of chunk_output terminates: the start cursor strictly increases
\* on every iteration that is followed by another, a finite list of chunks
\* is returned, and the last chunk ends at the end of the document.
C16_LoopTerminates ==
    /\ [][(cpc = "loop" /\ cpc' = "loop") => start' > start]_vars
    /\ <>(cpc = "done")
    /\ []((cpc = "done" /\ content # <<>>) =>
             /\ chunks # <<>>
             /\ spans[Len(spans)].end = Len(content)
             /\ EndsWith(content, chunks[Len(chunks)]))

C16_Witness ==
    /\ cpc = "done"
    /\ Len(chunks) >= 3
    /\ overlap = 0
    /\ \E i \in 1..Len(spans) : spans[i].raw
    /\ \E i \in 1..Len(spans) : ~spans[i].raw /\ spans[i].end < Len(content)

\* C17: every chunk returned by chunk_output has at most max_tokens * 4
\* characters: a cut is only ever pulled back to a preceding delimiter,
\* never pushed past the character budget.
C17_ChunkWithinBudget ==
    \A i \in 1..Len(chunks) :
       /\ Len(chunks[i]) <= max_chars
       /\ spans[i].end <= spans[i].start + max_chars

C17_Witness ==
    /\ cpc = "done"
    /\ \E i \in 1..Len(chunks) : Len(chunks[i]) = max_chars
    /\ \E i \in 1..Len(chunks) :
          /\ spans[i].end < Len(content)
          /\ Len(chunks[i]) < max_chars
          /\ EndsAfterDelim(i)

-----------------------------------------------------------------------------
(* Properties of the configuration, under MainSpec *)

MergedDone == mpc = "done" /\ loaded.raised = "none"

\* the merged value of key k follows the rule of the flag
UnionUnlessNoDefaults(k) ==
    merged_config[k] = IF args.no_default_excludes THEN args[k]
                       ELSE loaded.config[k] \cup args[k]

ExtensionsReplace ==
    merged_config.extensions = IF args.extensions # <<>> THEN args.extensions
                               ELSE loaded.config.extensions

\* C18: in the configuration produced by merge_config_with_args, each of
\* exclude_files, exclude_dirs and focus_dirs equals the union of the loaded
\* defaults and the command-line values when no-default-excludes is off, and
\* exactly the command-line values when it is on; extensions given on the
\* command line replace the defaults and are never unioned with them.
C18_MergeDropsAllDefaults ==
    MergedDone =>
       /\ UnionUnlessNoDefaults("exclude_files")
       /\ UnionUnlessNoDefaults("exclude_dirs")
       /\ UnionUnlessNoDefaults("focus_dirs")
       /\ ExtensionsReplace

\* C18, amended: exclude_files and exclude_dirs equal the union of the
\* loaded defaults and the command-line values when no-default-excludes is
\* off and exactly the command-line values when it is on; focus_dirs is
\* always that union, whatever the flag; extensions given on the command
\* line replace the defaults and are never unioned with them.
C18_MergeDropsExcludeDefaults ==
    MergedDone =>
       /\ UnionUnlessNoDefaults("exclude_files")
       /\ UnionUnlessNoDefaults("exclude_dirs")
       /\ merged_config.focus_dirs = loaded.config.focus_dirs \cup args.focus_dirs
       /\ ExtensionsReplace

C18_Witness ==
    /\ MergedDone
    /\ args.no_default_excludes
    /\ loaded.config.focus_dirs = {"src"}
    /\ args.focus_dirs = {"lib"}
    /\ loaded.config.exclude_dirs = {".git"}
    /\ args.exclude_dirs = {"tmp"}
    /\ merged_config.exclude_dirs = {"tmp"}
    /\ args.extensions # <<>>
    /\ loaded.config.extensions = <<".py">>

\* C20: the settings loader never fails: when the config file is absent it
\* is created with the built-in defaults and those defaults are returned;
\* when the file exists but is unreadable or is not valid JSON, the built-in
\* defaults are returned unchanged; when it is valid, the stored values are
\* returned.
C20_LoaderNeverFails ==
    mpc \in {"merge", "done"} =>
       /\ loaded.raised = "none"
       /\ loaded.before.state = "absent" =>
             /\ loaded.config = defaults
             /\ loaded.create = "none" => config_file = File("object", DefaultsObject)
       /\ loaded.before.state \in {"unreadable", "invalid"} =>
             /\ loaded.config = defaults
             /\ config_file = loaded.before
       /\ loaded.before.state = "object" =>
             \A k \in DOMAIN defaults :
                loaded.before.stored[k].st = "ok" =>
                   loaded.config[k] = loaded.before.stored[k].v

-----------------------------------------------------------------------------
(* Properties of two runs on one tree, under TwiceSpec *)

-----------------------------------------------------------------------------
(* Coverage of the document by the chunks, under ChunkSpec *)

\* C21: for every document, every max_tokens >= 1 and every overlap >= 0
\* (raw cuts included), every character position of the document is
\* contained in at least one returned chunk: the start of each chunk is
\* never beyond the end of the previous chunk, so no content is dropped.
C21_ChunksCoverDocument ==
    /\ \A i \in 1..(Len(spans) - 1) : spans[i + 1].start <= spans[i].end
    /\ cpc = "done" =>
          \A p \in 0..(Len(content) - 1) :
             \E i \in 1..Len(spans) : spans[i].start <= p /\ p < spans[i].end

-----------------------------------------------------------------------------
(* The counters of the per-file loop, under Spec *)

\* the per-file read ErrorEntries (lines 399-405)
ReadErrors == {i \in 1..Len(errors) : errors[i].reason \in {"perm", "utf8", "os"}}

\* the decode-error entries (line 402)
DecodeErrors == {i \in 1..Len(errors) : errors[i].reason = "utf8"}

\* 1 when the candidate of the step is rejected by the binary pre-check
\* (lines 371-373), else 0
Rejected(file, fault) == IF is_binary_file(file, fault) THEN 1 ELSE 0

\* C22: after any prefix of the per-file loop the counters partition the
\* candidates processed so far: processed = file_count + pre-check
\* rejections, file_count = entries of file_stats + per-file read
\* ErrorEntries, and binary_count = pre-check rejections + decode-error
\* entries.  The counters start at zero, so the equations with the
\* rejections are stated step by step.
C22_CountersPartition ==
    /\ [](file_count = Len(file_stats) + Cardinality(ReadErrors))
    /\ [][FileStep =>
            /\ nprocessed' - nprocessed
                 = (file_count' - file_count) + Rejected(last'.file, last'.fault)
            /\ binary_count' - binary_count
                 = Rejected(last'.file, last'.fault)
                     + (Cardinality(DecodeErrors') - Cardinality(DecodeErrors))]_vars

=============================================================================
